---- MODULE Spec2Model ----
(***************************************************************************)
(* Model of apps/accounts/models.py: the profile-provisioning signal       *)
(* handlers run by User.save, BuyerProfile.update_purchase_stats and the   *)
(* default-address clearing of Address.save.                               *)
(*                                                                         *)
(* The database runs in autocommit mode (no transaction.atomic anywhere    *)
(* in the source), so every statement a handler issues is committed when   *)
(* it returns, whether or not the handler later raises.                    *)
(***************************************************************************)
EXTENDS Integers, FiniteSets

VARIABLES
    users,            \* accounts_user:           pk -> user_type, or "absent"
    farmer_profiles,  \* accounts_farmer_profile: set of rows
    buyer_profiles,   \* accounts_buyer_profile:  set of rows
    last_user,        \* outcome of the last User.save call
    created_as,       \* pk -> user_type the account row was inserted with
    backend,          \* how the database adapter rounds a DecimalField
    profile,          \* the BuyerProfile instance update_purchase_stats runs on
    stored,           \* its row in accounts_buyer_profile
    last_stats,       \* arguments of the last update_purchase_stats call
    addresses,        \* accounts_address: set of rows
    pc,               \* writer -> position inside Address.save
    cur,              \* writer -> the Address instance being saved
    last_addr         \* outcome of the last Address.save call

vars == <<users, farmer_profiles, buyer_profiles, last_user, created_as,
          backend, profile, stored, last_stats,
          addresses, pc, cur, last_addr>>

prov_vars  == <<users, farmer_profiles, buyer_profiles, last_user, created_as>>
stats_vars == <<backend, profile, stored, last_stats>>
addr_vars  == <<addresses, pc, cur, last_addr>>

(***************************************************************************)
(* Bounds                                                                  *)
(***************************************************************************)
MaxUsers   == 2    \* account primary keys 1..MaxUsers
MaxOrders  == 4    \* orders recorded on one BuyerProfile
MaxAmount  == 3    \* small order amounts, in hundredths (paise)
MaxAddr    == 3    \* address primary keys 1..MaxAddr, one writer
MaxRows    == 2    \* address rows stored by concurrent writers (Titles caps them too)
MaxWriters == 2    \* concurrent callers of Address.save

UserIds == 1..MaxUsers

(***************************************************************************)
(* User and the role profiles                                              *)
(***************************************************************************)
USER_TYPE_CHOICES == {"farmer", "buyer", "admin", "vendor"}

Max(S) == IF S = {} THEN 0 ELSE CHOOSE x \in S : \A y \in S : y <= x

\* AutoField primary key of the next inserted row.
NextPk(table) == Max({r.id : r \in table}) + 1

\* The database as the handlers see it.
Db == [users |-> users, farmer |-> farmer_profiles, buyer |-> buyer_profiles]

Raise(db, e) == [db |-> db, err |-> e]
Ok(db)       == [db |-> db, err |-> "none"]

\* FarmerProfile.objects.create(user=..., farm_size=..., ...).  user is a
\* OneToOneField, hence unique; `fail` is the datastore refusing the INSERT.
FarmerProfile_create(db, u, size, years, fail) ==
    IF fail THEN Raise(db, "DatabaseError")
    ELSE IF \E p \in db.farmer : p.user = u THEN Raise(db, "IntegrityError")
    ELSE Ok([db EXCEPT !.farmer = @ \cup
               {[id |-> NextPk(db.farmer), user |-> u, farm_size |-> size,
                 farming_experience_years |-> years]}])

\* BuyerProfile.objects.create(user=instance): every other field defaults.
BuyerProfile_create(db, u, fail) ==
    IF fail THEN Raise(db, "DatabaseError")
    ELSE IF \E p \in db.buyer : p.user = u THEN Raise(db, "IntegrityError")
    ELSE Ok([db EXCEPT !.buyer = @ \cup
               {[id |-> NextPk(db.buyer), user |-> u, total_orders |-> 0,
                 total_spent |-> 0, average_order_value |-> 0]}])

\* Mutant: the handler ignores `created` and provisions on every save.
create_user_profile_always(db, u, created, fail) ==
    IF db.users[u] = "farmer"
        THEN FarmerProfile_create(db, u, "small", 1, fail)
    ELSE IF db.users[u] \in {"buyer", "vendor"}
        THEN BuyerProfile_create(db, u, fail)
    ELSE Ok(db)

\* Mutant: a farmer is given the buyer's profile.
create_user_profile_buyer_only(db, u, created, fail) ==
    IF created /\ db.users[u] \in {"farmer", "buyer", "vendor"}
        THEN BuyerProfile_create(db, u, fail)
    ELSE Ok(db)

\* Mutant: a vendor is left without a profile.
create_user_profile_no_vendor(db, u, created, fail) ==
    IF created
    THEN IF db.users[u] = "farmer"
             THEN FarmerProfile_create(db, u, "small", 1, fail)
         ELSE IF db.users[u] = "buyer"
             THEN BuyerProfile_create(db, u, fail)
         ELSE Ok(db)
    ELSE Ok(db)

\* Mutant: every role but farmer, admin included, gets a BuyerProfile.
create_user_profile_else(db, u, created, fail) ==
    IF created
    THEN IF db.users[u] = "farmer"
             THEN FarmerProfile_create(db, u, "small", 1, fail)
         ELSE BuyerProfile_create(db, u, fail)
    ELSE Ok(db)

\* post_save receiver create_user_profile(sender, instance, created).
create_user_profile(db, u, created, fail) ==
    IF created
    THEN IF db.users[u] = "farmer"
             THEN FarmerProfile_create(db, u, "small", 1, fail)
         ELSE IF db.users[u] \in {"buyer", "vendor"}
             THEN BuyerProfile_create(db, u, fail)
         ELSE Ok(db)
    ELSE Ok(db)

\* hasattr(instance, 'farmer_profile') / hasattr(instance, 'buyer_profile'):
\* the reverse one-to-one accessor finds the row or raises an AttributeError.
HasFarmerProfile(db, u) == \E p \in db.farmer : p.user = u
HasBuyerProfile(db, u)  == \E p \in db.buyer : p.user = u

\* Model.save() of a profile whose fields were not edited: the row is
\* rewritten as it was read; `fail` is the datastore refusing the UPDATE.
Profile_save(db, fail) == IF fail THEN Raise(db, "DatabaseError") ELSE Ok(db)

\* post_save receiver save_user_profile(sender, instance): the profile of
\* the account's current role, when it has one, is saved again, and
\* whatever that raises is swallowed.
save_user_profile(db, u, fail) ==
    LET r == IF db.users[u] = "farmer" /\ HasFarmerProfile(db, u)
                 THEN Profile_save(db, fail)
             ELSE IF db.users[u] \in {"buyer", "vendor"} /\ HasBuyerProfile(db, u)
                 THEN Profile_save(db, fail)
             ELSE Ok(db)
    IN  Ok(r.db)      \* except Exception: pass

\* User.save: super().save() writes the account row and commits it, then
\* sends post_save to the two receivers in registration order.  An
\* exception of the first receiver leaves save() before the second runs.
\* The thumbnailing of profile_picture that follows touches the image file
\* only, none of the tables.
User_save(db, u, t, fail1, fail2) ==
    LET created == db.users[u] = "absent"
        db1     == [db EXCEPT !.users[u] = t]
        r1      == create_user_profile(db1, u, created, fail1)
    IN  IF r1.err # "none" THEN r1 ELSE save_user_profile(r1.db, u, fail2)

NoUserCall == [op |-> "none", user |-> 0, user_type |-> "none", err |-> "none"]

ApplyUserSave(u, t, op, fail1, fail2) ==
    LET r == User_save(Db, u, t, fail1, fail2)
    IN  /\ users' = r.db.users
        /\ farmer_profiles' = r.db.farmer
        /\ buyer_profiles' = r.db.buyer
        /\ last_user' = [op |-> op, user |-> u, user_type |-> t, err |-> r.err]
        /\ created_as' = IF users[u] = "absent" /\ r.db.users[u] # "absent"
                             THEN [created_as EXCEPT ![u] = t]
                             ELSE created_as

\* User(user_type=t, ...).save() for an account not stored yet.
UserCreate ==
    \E u \in UserIds, t \in USER_TYPE_CHOICES, fail1 \in BOOLEAN, fail2 \in BOOLEAN :
        /\ users[u] = "absent"
        /\ ApplyUserSave(u, t, "create", fail1, fail2)
        /\ UNCHANGED <<stats_vars, addr_vars>>

\* user.save() of a stored account, any field (user_type included) edited.
UserUpdate ==
    \E u \in UserIds, t \in USER_TYPE_CHOICES, fail1 \in BOOLEAN, fail2 \in BOOLEAN :
        /\ users[u] # "absent"
        /\ ApplyUserSave(u, t, "update", fail1, fail2)
        /\ UNCHANGED <<stats_vars, addr_vars>>

InitProvVars ==
    /\ users = [u \in UserIds |-> "absent"]
    /\ farmer_profiles = {}
    /\ buyer_profiles = {}
    /\ last_user = NoUserCall
    /\ created_as = [u \in UserIds |-> "absent"]

(***************************************************************************)
(* BuyerProfile purchase statistics.  Money is counted in hundredths, the  *)
(* unit of the two-decimal-place DecimalFields; an average in memory is    *)
(* the exact quotient <<numerator, denominator>> of Decimal division       *)
(* (28 significant digits, far beyond the amounts reached here).           *)
(***************************************************************************)
Amounts == 0..MaxAmount \cup {5000}

\* DecimalField(decimal_places=2) on its way to the column: the quotient
\* num/den rounded to a whole number of hundredths.  Django's
\* format_number quantizes with the decimal context (ROUND_HALF_EVEN); a
\* backend that hands the Decimal to a numeric(10,2) column rounds a tie
\* away from zero.
Quantize(num, den, mode) ==
    LET q == num \div den
        r == num % den
    IN  IF 2 * r < den THEN q
        ELSE IF 2 * r > den THEN q + 1
        ELSE IF mode = "format_number" /\ q % 2 = 0 THEN q
        ELSE q + 1

\* Model.save() of a BuyerProfile: the row written from the instance.
BuyerProfile_save(self, mode) ==
    [total_orders |-> self.total_orders,
     total_spent |-> self.total_spent,
     average_order_value |->
         Quantize(self.average_order_value[1], self.average_order_value[2], mode)]

\* Mutant: the average is taken before the amount is added.
update_purchase_stats_stale_total(self, order_amount, mode) ==
    LET s1 == [self EXCEPT !.total_orders = @ + 1]
        s2 == [s1 EXCEPT !.average_order_value = <<s1.total_spent, s1.total_orders>>]
        s3 == [s2 EXCEPT !.total_spent = @ + order_amount]
    IN  [self |-> s3, row |-> BuyerProfile_save(s3, mode)]

\* BuyerProfile.update_purchase_stats(order_amount): the instance after
\* the call and the row self.save() wrote.
update_purchase_stats(self, order_amount, mode) ==
    LET s1 == [self EXCEPT !.total_orders = @ + 1]
        s2 == [s1 EXCEPT !.total_spent = @ + order_amount]
        s3 == [s2 EXCEPT !.average_order_value = <<s2.total_spent, s2.total_orders>>]
    IN  [self |-> s3, row |-> BuyerProfile_save(s3, mode)]

UpdatePurchaseStats ==
    \E a \in Amounts :
        /\ profile.total_orders < MaxOrders
        /\ LET r == update_purchase_stats(profile, a, backend)
           IN  /\ profile' = r.self
               /\ stored' = r.row
        /\ last_stats' = [called |-> TRUE, n |-> profile.total_orders,
                          s |-> profile.total_spent, a |-> a]
        /\ UNCHANGED <<backend, prov_vars, addr_vars>>

\* A profile as create_user_profile left it: the field defaults.
NewBuyerProfile ==
    /\ profile = [total_orders |-> 0, total_spent |-> 0,
                  average_order_value |-> <<0, 1>>]
    /\ stored = [total_orders |-> 0, total_spent |-> 0, average_order_value |-> 0]
    /\ last_stats = [called |-> FALSE, n |-> 0, s |-> 0, a |-> 0]

InitStatsIdle == backend = "format_number" /\ NewBuyerProfile

(***************************************************************************)
(* Address                                                                 *)
(***************************************************************************)
Titles  == {"Home", "Farm"}
Owners  == {1, 2}          \* accounts (user_id) that own addresses
Shared  == {1}             \* the account the concurrent writers write to
AddrIds == 1..MaxAddr
Writers == 1..MaxWriters

NoInstance == [id |-> 0, user |-> 0, title |-> "", is_default |-> FALSE]
NoAddrCall == [op |-> "none", id |-> 0, pk |-> 0, user |-> 0, title |-> "",
               is_default |-> FALSE, err |-> "none"]

\* Address.objects.filter(user=self.user, is_default=True)
\*                .update(is_default=False)
ClearDefaults(tbl, u) ==
    {IF a.user = u /\ a.is_default THEN [a EXCEPT !.is_default = FALSE] ELSE a
        : a \in tbl}

\* Mutant: the table without its unique_together constraint.
Model_save_no_unique(tbl, inst) ==
    LET pk == IF inst.id = 0 THEN NextPk(tbl) ELSE inst.id
    IN  [tbl |-> {a \in tbl : a.id # pk} \cup {[inst EXCEPT !.id = pk]},
         pk |-> pk, err |-> "none"]

\* super().save(): UPDATE of the row with the instance's pk, INSERT with a
\* fresh pk when the instance has none (id 0).  unique_together
\* ['user', 'title'] makes the database refuse a second row with the pair.
Model_save(tbl, inst) ==
    LET pk == IF inst.id = 0 THEN NextPk(tbl) ELSE inst.id
    IN  IF \E a \in tbl : a.id # pk /\ a.user = inst.user /\ a.title = inst.title
        THEN [tbl |-> tbl, pk |-> inst.id, err |-> "IntegrityError"]
        ELSE [tbl |-> {a \in tbl : a.id # pk} \cup {[inst EXCEPT !.id = pk]},
              pk |-> pk, err |-> "none"]

\* Mutant: the defaults are cleared only when a new address is inserted.
Address_save_clear_on_insert(tbl, inst) ==
    Model_save(IF inst.is_default /\ inst.id = 0
                   THEN ClearDefaults(tbl, inst.user) ELSE tbl, inst)

\* Address.save run by a single writer.
Address_save(tbl, inst) ==
    Model_save(IF inst.is_default THEN ClearDefaults(tbl, inst.user) ELSE tbl, inst)

\* The instances save() can be called on: a new address, or a stored one
\* with title and is_default as the caller set them.
Instances(tbl, owners) ==
    [id : {0}, user : owners, title : Titles, is_default : BOOLEAN]
    \cup UNION {[id : {a.id}, user : {a.user}, title : Titles, is_default : BOOLEAN]
                  : a \in tbl}

Outcome(inst, r) ==
    [op |-> "save", id |-> inst.id, pk |-> r.pk, user |-> inst.user,
     title |-> inst.title, is_default |-> inst.is_default, err |-> r.err]

\* address.save() with no other writer on the table.
AddressSave ==
    \E inst \in Instances(addresses, Owners) :
        /\ inst.id = 0 => Cardinality(addresses) < MaxAddr
        /\ LET r == Address_save(addresses, inst)
           IN  /\ addresses' = r.tbl
               /\ last_addr' = Outcome(inst, r)
        /\ UNCHANGED <<pc, cur, prov_vars, stats_vars>>

\* Several writers: line 321 and line 322 are separate statements, each
\* committed on its own.
InFlightInserts == Cardinality({w \in Writers : pc[w] = "persist" /\ cur[w].id = 0})

\* if self.is_default: ...filter(...).update(is_default=False)
ClearOthers(w) ==
    \E inst \in Instances(addresses, Shared) :
        /\ pc[w] = "idle" /\ inst.is_default
        /\ inst.id = 0 => Cardinality(addresses) + InFlightInserts < MaxRows
        /\ addresses' = ClearDefaults(addresses, inst.user)
        /\ cur' = [cur EXCEPT ![w] = inst]
        /\ pc' = [pc EXCEPT ![w] = "persist"]
        /\ UNCHANGED <<last_addr, prov_vars, stats_vars>>

\* if self.is_default: is false, nothing is cleared.
SkipClear(w) ==
    \E inst \in Instances(addresses, Shared) :
        /\ pc[w] = "idle" /\ ~inst.is_default
        /\ inst.id = 0 => Cardinality(addresses) + InFlightInserts < MaxRows
        /\ cur' = [cur EXCEPT ![w] = inst]
        /\ pc' = [pc EXCEPT ![w] = "persist"]
        /\ UNCHANGED <<addresses, last_addr, prov_vars, stats_vars>>

\* super().save(*args, **kwargs)
Persist(w) ==
    /\ pc[w] = "persist"
    /\ LET r == Model_save(addresses, cur[w])
       IN  /\ addresses' = r.tbl
           /\ last_addr' = Outcome(cur[w], r)
    /\ cur' = [cur EXCEPT ![w] = NoInstance]
    /\ pc' = [pc EXCEPT ![w] = "idle"]
    /\ UNCHANGED <<prov_vars, stats_vars>>

UniqueTitles(tbl) ==
    \A a, b \in tbl : (a.user = b.user /\ a.title = b.title) => a.id = b.id

\* Every table the unique primary key and unique_together allow, whatever
\* its is_default flags.
Tables ==
    {t \in UNION {{ {[id |-> i, user |-> f[i].user, title |-> f[i].title,
                      is_default |-> f[i].is_default] : i \in P}
                    : f \in [P -> [user : Owners, title : Titles,
                                   is_default : BOOLEAN]]}
                  : P \in SUBSET AddrIds}
        : UniqueTitles(t)}

InitAddrIdle ==
    /\ addresses = {}
    /\ pc = [w \in Writers |-> "idle"]
    /\ cur = [w \in Writers |-> NoInstance]
    /\ last_addr = NoAddrCall

InitProv == InitProvVars /\ InitStatsIdle /\ InitAddrIdle
NextProv == UserCreate \/ UserUpdate
SpecProv == InitProv /\ [][NextProv]_vars

FarmerProfilesOf(u) == {p \in farmer_profiles : p.user = u}
BuyerProfilesOf(u)  == {p \in buyer_profiles : p.user = u}

\* C3: when the creating save of an account with user_type farmer returns,
\* the account owns exactly one FarmerProfile and no BuyerProfile, and that
\* profile has farm_size "small" and farming_experience_years 1.
C3_FarmerProvisioned ==
    (last_user.op = "create" /\ last_user.user_type = "farmer"
        /\ last_user.err = "none")
    => /\ Cardinality(FarmerProfilesOf(last_user.user)) = 1
       /\ BuyerProfilesOf(last_user.user) = {}
       /\ \A p \in FarmerProfilesOf(last_user.user) :
              p.farm_size = "small" /\ p.farming_experience_years = 1

C3_Witness ==
    /\ last_user.op = "create" /\ last_user.user_type = "farmer"
    /\ last_user.err = "none"
    /\ FarmerProfilesOf(last_user.user) # {}

\* C4: when the creating save of an account with user_type buyer or vendor
\* returns, the account owns exactly one BuyerProfile and no FarmerProfile,
\* and that profile has total_orders 0.
C4_BuyerProvisioned ==
    (last_user.op = "create" /\ last_user.user_type \in {"buyer", "vendor"}
        /\ last_user.err = "none")
    => /\ Cardinality(BuyerProfilesOf(last_user.user)) = 1
       /\ FarmerProfilesOf(last_user.user) = {}
       /\ \A p \in BuyerProfilesOf(last_user.user) : p.total_orders = 0

C4_Witness ==
    /\ last_user.op = "create" /\ last_user.user_type = "vendor"
    /\ last_user.err = "none"
    /\ BuyerProfilesOf(last_user.user) # {}

\* C5 as stated: every stored account whose user_type is admin owns no
\* FarmerProfile and no BuyerProfile, after its creation and after any
\* later save.
C5_AdminHasNoProfile ==
    \A u \in UserIds :
        users[u] = "admin" => FarmerProfilesOf(u) = {} /\ BuyerProfilesOf(u) = {}

\* C5 amended: every account created with user_type admin owns no
\* FarmerProfile and no BuyerProfile, after its creation and after any
\* later save (whatever user_type those saves store).
C5_CreatedAdminHasNoProfile ==
    \A u \in UserIds :
        created_as[u] = "admin" => FarmerProfilesOf(u) = {} /\ BuyerProfilesOf(u) = {}

C5_Witness ==
    \E u \in UserIds :
        /\ created_as[u] = "admin" /\ users[u] = "buyer"
        /\ last_user.op = "update" /\ last_user.user = u
        /\ FarmerProfilesOf(u) = {} /\ BuyerProfilesOf(u) = {}

\* C8: a save of an already stored account creates no profile and raises
\* no error, and no account ever owns more than one FarmerProfile or more
\* than one BuyerProfile.
C8_ProvisioningIdempotent ==
    /\ [](\A u \in UserIds : /\ Cardinality(FarmerProfilesOf(u)) <= 1
                             /\ Cardinality(BuyerProfilesOf(u)) <= 1)
    /\ [][last_user'.op = "update"
            => /\ farmer_profiles' = farmer_profiles
               /\ buyer_profiles' = buyer_profiles
               /\ last_user'.err = "none"]_vars

C8_Witness ==
    /\ last_user.op = "update" /\ last_user.err = "none"
    /\ users[last_user.user] = "farmer"
    /\ Cardinality(FarmerProfilesOf(last_user.user)) = 1

\* C9 as stated: a creating save that raises leaves no account row behind,
\* so every stored account created as farmer, buyer or vendor owns the
\* role profile of that role.
C9_CreationAtomic ==
    /\ (last_user.op = "create" /\ last_user.err # "none")
           => users[last_user.user] = "absent"
    /\ \A u \in UserIds :
          /\ (users[u] # "absent" /\ created_as[u] = "farmer")
                 => FarmerProfilesOf(u) # {}
          /\ (users[u] # "absent" /\ created_as[u] \in {"buyer", "vendor"})
                 => BuyerProfilesOf(u) # {}

InitStats ==
    /\ backend \in {"format_number", "numeric"}
    /\ NewBuyerProfile
    /\ InitProvVars /\ InitAddrIdle
NextStats == UpdatePurchaseStats
SpecStats == InitStats /\ [][NextStats]_vars

InitAddr ==
    /\ addresses \in Tables
    /\ pc = [w \in Writers |-> "idle"]
    /\ cur = [w \in Writers |-> NoInstance]
    /\ last_addr = NoAddrCall
    /\ InitProvVars /\ InitStatsIdle
NextAddr == AddressSave
SpecAddr == InitAddr /\ [][NextAddr]_vars

InitAddrConc == InitAddrIdle /\ InitProvVars /\ InitStatsIdle
NextAddrConc == \E w \in Writers : ClearOthers(w) \/ SkipClear(w) \/ Persist(w)
SpecAddrConc == InitAddrConc /\ [][NextAddrConc]_vars

DefaultsOf(u) == {a \in addresses : a.user = u /\ a.is_default}

\* C1: when Address.save returns for an address A with is_default true, A
\* is stored with is_default true and no other address of A's account has
\* is_default true, whatever the table held before.
C1_DefaultIsExclusive ==
    (last_addr.op = "save" /\ last_addr.is_default /\ last_addr.err = "none")
    => /\ \E a \in addresses :
             /\ a.id = last_addr.pk /\ a.user = last_addr.user
             /\ a.title = last_addr.title /\ a.is_default
       /\ \A b \in addresses :
             (b.user = last_addr.user /\ b.id # last_addr.pk) => ~b.is_default

\* An existing address was made the default while another one was.
C1_Witness ==
    /\ last_addr.op = "save" /\ last_addr.is_default /\ last_addr.err = "none"
    /\ last_addr.id # 0
    /\ DefaultsOf(last_addr.user) # {}
    /\ Cardinality({a \in addresses : a.user = last_addr.user}) > 1

\* C2 as stated: under every interleaving of the clear-others and persist
\* steps of Address.save calls, at most one address of an account has
\* is_default true.
C2_AtMostOneDefault ==
    \A u \in Owners : Cardinality(DefaultsOf(u)) <= 1

\* C6 as stated: one call of update_purchase_stats with amount a on a
\* profile with n orders and s spent stores total_orders n + 1, total_spent
\* s + a and average_order_value exactly (s + a) / (n + 1).
C6_ExactAverage ==
    last_stats.called
    => /\ stored.total_orders = last_stats.n + 1
       /\ stored.total_spent = last_stats.s + last_stats.a
       /\ stored.average_order_value * (last_stats.n + 1)
             = last_stats.s + last_stats.a

\* C6 amended: ... and average_order_value is (s + a) / (n + 1) rounded to
\* the nearest hundredth.
C6_RoundedAverage ==
    last_stats.called
    => LET n1 == last_stats.n + 1
           s1 == last_stats.s + last_stats.a
           d  == stored.average_order_value * n1 - s1
       IN  /\ stored.total_orders = n1
           /\ stored.total_spent = s1
           /\ 2 * d <= n1 /\ 2 * (0 - d) <= n1

\* The third order of a profile whose total does not divide by three.
C6_Witness ==
    /\ last_stats.called /\ last_stats.n = 2
    /\ (last_stats.s + last_stats.a) % 3 # 0
    /\ stored.total_orders = 3

\* C7: the insert of an address whose (user, title) pair a stored address
\* already has is refused with an error and stores no row, and no two
\* stored addresses of an account share a title.
C7_TitleUniquePerAccount ==
    /\ [](UniqueTitles(addresses))
    /\ [][\A w \in Writers :
            (/\ pc[w] = "persist" /\ pc'[w] = "idle" /\ cur[w].id = 0
             /\ \E a \in addresses :
                    a.user = cur[w].user /\ a.title = cur[w].title)
            => /\ last_addr'.err = "IntegrityError"
               /\ {a.id : a \in addresses'} = {a.id : a \in addresses}]_vars

\* A second address with a stored title was refused.
C7_Witness ==
    /\ last_addr.op = "save" /\ last_addr.id = 0
    /\ last_addr.err = "IntegrityError"
    /\ \E a \in addresses : a.user = last_addr.user /\ a.title = last_addr.title

\* C10 as stated: an Address.save that ends in an error leaves every
\* stored address as it was.
C10_FailedSaveChangesNothing ==
    [][last_addr'.err # "none" => addresses' = addresses]_vars

====
